---- MODULE Spec2Model ----
(***************************************************************************)
(* State-machine model of src/trainer.py (class Trainer): the four         *)
(* parameter sets with their gradient buffers, the checkpoint directory,   *)
(* and one action per public method.  Gradient buffers are cleared by      *)
(* every training method before it fills and uses them, so they carry      *)
(* nothing from one call to the next and live inside the actions.          *)
(***************************************************************************)
EXTENDS Integers, Sequences, FiniteSets, TLC

VARIABLES cfg, params, final_training, files, last, log, snapshot

vars == <<cfg, params, final_training, files, last, log, snapshot>>

(* ---------------------------------------------------------------- bounds *)
\* Each parameter set takes one of NParam abstract values 0..NParam-1.
NParam == 2
\* Largest n_critic a trainer is constructed with.
MaxNCritic == 2
\* Largest configured batch size bs.
MaxBs == 2
\* Largest number of output classes of a classifier (train_out, total_out).
MaxOut == 2
\* Largest logit a classifier emits, logits being l * ln 2 for l in 0..MaxLogit.
MaxLogit == 1
\* Largest number of classes in a label mapping given to create_syn_dataset.
MaxClasses == 2
\* Largest number of examples in a batch given to test.
MaxBatch == 3

(* ------------------------------------------------------- basic data sets *)
Nets == {"net_G", "net_D", "classifier", "final_classifier"}

ParamVals == 0 .. (NParam - 1)

FileNames == {"disc_classifier.pth", "generator.pth", "discriminator.pth",
              "final_classifier.pth"}

NoFile == [arch |-> <<"none", 0>>, val |-> 0]

ModelNames == {"disc_classifier", "gan", "final_classifier", "None", "critic"}

RECURSIVE SumSeq(_)
SumSeq(s) == IF s = <<>> THEN 0 ELSE Head(s) + SumSeq(Tail(s))

RECURSIVE ProdSeq(_)
ProdSeq(s) == IF s = <<>> THEN 1 ELSE Head(s) * ProdSeq(Tail(s))

(* ----------------------------------------------------------- construction *)
\* The architecture of each network as __init__ builds it; a state dict only
\* loads into a network of the same architecture.
Arch(c, net) ==
    CASE net = "net_G" -> <<"Generator", 0>>
      [] net = "net_D" -> <<"Discriminator", 0>>
      [] net = "classifier" -> <<"SoftmaxClassifier", c.train_out>>
      [] net = "final_classifier" -> <<"SoftmaxClassifier", c.total_out>>

Configs ==
    [n_critic : 0 .. MaxNCritic, lmbda : {10}, beta : {1}, bs : 1 .. MaxBs,
     train_out : 1 .. MaxOut, total_out : 1 .. MaxOut]

\* state_dict() of a network.
StateDict(net) == [arch |-> Arch(cfg, net), val |-> params[net]]

\* What an earlier run of save_model with configuration c leaves in a file.
Saved(c, f) ==
    LET net == CASE f = "disc_classifier.pth" -> "classifier"
                 [] f = "generator.pth" -> "net_G"
                 [] f = "discriminator.pth" -> "net_D"
                 [] f = "final_classifier.pth" -> "classifier"
    IN {[arch |-> Arch(c, net), val |-> v] : v \in ParamVals}

\* The contents saved_models/ can have when the trainer is constructed.
Directories(c) ==
    {d \in [FileNames -> UNION {Saved(c, f) : f \in FileNames} \cup {NoFile}] :
        \A f \in FileNames : d[f] \in Saved(c, f) \cup {NoFile}}

FreshDirectory == [f \in FileNames |-> NoFile]

Kinds == {"disc_classifier", "gan", "final_classifier"}

InitWith(cs, ps, dirs) ==
    /\ cfg \in cs
    /\ params \in ps
    /\ final_training = TRUE
    /\ files \in (IF dirs = "fresh" THEN {FreshDirectory} ELSE Directories(cfg))
    /\ snapshot = [k \in Kinds |-> [saved |-> FALSE, vals |-> [n \in Nets |-> 0]]]
    /\ last = [op |-> "__init__", arg |-> "None", raised |-> "none", ret |-> "None"]
    /\ log = <<>>

(* ------------------------------------------------- autograd and optimizer *)
\* The gradient buffers a call finds: whatever earlier calls left in them.
StaleGrads == [n \in Nets |-> TRUE]

\* optim.zero_grad(): clears the gradient buffers of the optimizer's own net.
ZeroGrad(g, net) == [g EXCEPT ![net] = FALSE]

\* loss.backward(): fills the gradient buffer of every network whose
\* parameters the loss was computed from through an attached graph.
Backward(g, nets) == [n \in Nets |-> g[n] \/ n \in nets]

\* Variant: the optimizer was built over the parameters of every network.
OptimStep_EveryFilled(p, g, net) ==
    [n \in Nets |-> IF g[n] THEN (p[n] + 1) % NParam ELSE p[n]]

\* optim.step(): moves the parameters of the optimizer's own net when their
\* gradient buffers are filled.
OptimStep(p, g, net) ==
    [p EXCEPT ![net] = IF g[net] THEN (@ + 1) % NParam ELSE @]

\* One entry of the record of a call: what was done, on which network, with
\* which latent noise batch (0: none), and the value it produced (0: none).
Ev(e, net, z, v) == [ev |-> e, net |-> net, z |-> z, v |-> v]

(* ---------------------------------------------------------- fit_classifier *)
fit_classifier(loss) ==
    LET g1 == ZeroGrad(StaleGrads, "classifier")
        g2 == Backward(g1, {"classifier"})
    IN /\ params' = OptimStep(params, g2, "classifier")
       /\ log' = <<Ev("zero_grad", "classifier", 0, 0), Ev("backward", "classifier", 0, 0),
                   Ev("step", "classifier", 0, 0)>>
       /\ last' = [op |-> "fit_classifier", arg |-> "None", raised |-> "none",
                   ret |-> loss]
       /\ UNCHANGED <<cfg, final_training, files, snapshot>>

(* --------------------------------------------------- fit_final_classifier *)
fit_final_classifier(feature_input, loss) ==
    LET g1 == ZeroGrad(StaleGrads, "final_classifier")
        g2 == Backward(g1, {"final_classifier"})
    IN /\ params' = OptimStep(params, g2, "final_classifier")
       /\ log' = <<Ev("zero_grad", "final_classifier", 0, 0),
                   Ev("backward", "final_classifier", 0, 0),
                   Ev("step", "final_classifier", 0, 0)>>
       /\ last' = [op |-> "fit_final_classifier", arg |-> feature_input,
                   raised |-> "none", ret |-> loss]
       /\ UNCHANGED <<cfg, final_training, files, snapshot>>

(* -------------------------------------------------------------- save_model *)
\* Python's None, True and False as a call's result.
Py(b) == IF b THEN "True" ELSE "False"

Returned(op, model, ret) == [op |-> op, arg |-> model, raised |-> "none", ret |-> ret]

\* Variant: the unknown name falls through to the final return False.
UnknownModel_ReturnsFalse(op, model) == Returned(op, model, Py(FALSE))

\* raise Exception("Trying to save/load unknown model: %s" % model)
UnknownModel(op, model) ==
    [op |-> op, arg |-> model, raised |-> "Exception", ret |-> "None"]

save_model(model) ==
    /\ IF model = "disc_classifier"
       THEN /\ files' = [files EXCEPT !["disc_classifier.pth"] = StateDict("classifier")]
            /\ last' = Returned("save_model", model, "None")
       ELSE IF model = "gan"
       THEN /\ files' = [files EXCEPT !["generator.pth"] = StateDict("net_G"),
                                      !["discriminator.pth"] = StateDict("net_D")]
            /\ last' = Returned("save_model", model, "None")
       ELSE IF model = "final_classifier"
       THEN /\ files' = [files EXCEPT !["final_classifier.pth"] = StateDict("classifier")]
            /\ last' = Returned("save_model", model, "None")
       ELSE /\ files' = files
            /\ last' = UnknownModel("save_model", model)
    /\ log' = <<>>
    /\ UNCHANGED <<cfg, params, final_training>>

(* -------------------------------------------------------------- load_model *)
\* Variant: the existence test is left out.
Exists_Unchecked(f) == TRUE

\* os.path.exists(ckpt_path)
Exists(f) == files[f] # NoFile

\* net.load_state_dict(torch.load(path)): copies the checkpoint into the net
\* when the architectures agree; otherwise it raises after having copied the
\* tensors whose shapes do agree, which leaves some value `partial`.
LoadOk(net, f) == files[f].arch = Arch(cfg, net)

LoadStateDict(p, net, f, partial) ==
    [p EXCEPT ![net] = IF LoadOk(net, f) THEN files[f].val ELSE partial]

\* The result of the call once load_state_dict has run on net from file f.
Loaded(model, net, f) ==
    IF LoadOk(net, f) THEN Returned("load_model", model, Py(TRUE))
    ELSE [op |-> "load_model", arg |-> model, raised |-> "RuntimeError", ret |-> "None"]

\* Variant: return f1 or f2
GanLoaded_Either(f1, f2) == f1 \/ f2

\* return f1 and f2
GanLoaded(f1, f2) == f1 /\ f2

load_model(model, partial) ==
    /\ IF model = "disc_classifier"
       THEN IF Exists("disc_classifier.pth")
            THEN /\ params' = LoadStateDict(params, "classifier", "disc_classifier.pth",
                                            partial)
                 /\ last' = Loaded(model, "classifier", "disc_classifier.pth")
            ELSE /\ params' = params
                 /\ last' = Returned("load_model", model, Py(FALSE))
       ELSE IF model = "gan"
       THEN LET f1 == Exists("generator.pth")
                p1 == IF f1 THEN LoadStateDict(params, "net_G", "generator.pth", partial)
                      ELSE params
                f2 == Exists("discriminator.pth")
                p2 == IF f2 THEN LoadStateDict(p1, "net_D", "discriminator.pth", partial)
                      ELSE p1
            IN /\ params' = p2
               /\ last' = Returned("load_model", model, Py(GanLoaded(f1, f2)))
       ELSE IF model = "final_classifier"
       THEN IF Exists("final_classifier.pth")
            THEN /\ params' = LoadStateDict(params, "final_classifier",
                                            "final_classifier.pth", partial)
                 /\ last' = Loaded(model, "final_classifier", "final_classifier.pth")
            ELSE /\ params' = params
                 /\ last' = Returned("load_model", model, Py(FALSE))
       ELSE /\ params' = params
            /\ last' = UnknownModel("load_model", model)
    /\ log' = <<>>
    /\ UNCHANGED <<cfg, final_training, files, snapshot>>

(* ----------------------------------------------------------------- fit_GAN *)
Exp2(l) == 2 ^ l

\* F.softmax(Y, dim) of a bs x classes matrix of logits l * ln 2: every entry
\* is the fraction <<numerator, denominator>>, normalised along axis dim.
Softmax(Y, dim) ==
    [i \in DOMAIN Y |->
        [j \in DOMAIN Y[i] |->
            <<Exp2(Y[i][j]),
              IF dim = 0
              THEN SumSeq([k \in DOMAIN Y |-> Exp2(Y[k][j])])
              ELSE SumSeq([k \in DOMAIN Y[i] |-> Exp2(Y[i][k])])>>]]

\* torch.gather(P, 1, label_idx.unsqueeze(1)): row i's entry at column label_idx[i].
Gather(P, label_idx) == [i \in DOMAIN P |-> P[i][label_idx[i] + 1]]

\* L_cls = -1 * mean(log(ps)), kept exactly as the fraction q = prod(ps), for
\* which L_cls = -(1 / n) * ln(q).
ClsLoss(ps) ==
    <<ProdSeq([i \in DOMAIN ps |-> ps[i][1]]), ProdSeq([i \in DOMAIN ps |-> ps[i][2]])>>

\* The generator loss: num / n is -1 * mean(net_D(X)); the auxiliary term is
\* beta * (-(1 / n) * ln(prob[1] / prob[2])), absent when beta is 0.
GenLoss(use_cls_loss, gen) ==
    LET n == Len(gen.scores)
        Y_pred == Softmax(gen.logits, 0)
        log_prob == Gather(Y_pred, gen.label_idx)
    IN [num |-> -1 * SumSeq(gen.scores), n |-> n,
        beta |-> IF use_cls_loss THEN cfg.beta ELSE 0,
        prob |-> IF use_cls_loss THEN ClsLoss(log_prob) ELSE <<1, 1>>]

\* Variant: the critic loss is accumulated before the penalty is added to it.
CriticIteration_TotalBeforePenalty(st, it) ==
    LET z == st.nz + 1
        g1 == ZeroGrad(st.grads, "net_D")
        g2 == Backward(g1, {"net_D"})
    IN [params |-> OptimStep(st.params, g2, "net_D"),
        grads |-> g2,
        total |-> st.total + it.w,
        nz |-> z,
        log |-> st.log \o <<Ev("sample_Z", "none", z, 0),
                            Ev("critic_loss", "net_D", z, it.w),
                            Ev("grad_penalty", "net_D", z, it.gp),
                            Ev("zero_grad", "net_D", z, 0),
                            Ev("backward", "net_D", z, 0),
                            Ev("step", "net_D", z, 0)>>]

\* One pass of the critic loop body on the running state st.
CriticIteration(st, it) ==
    LET z == st.nz + 1
        L_disc == it.w + cfg.lmbda * it.gp
        g1 == ZeroGrad(st.grads, "net_D")
        g2 == Backward(g1, {"net_D"})
    IN [params |-> OptimStep(st.params, g2, "net_D"),
        grads |-> g2,
        total |-> st.total + L_disc,
        nz |-> z,
        log |-> st.log \o <<Ev("sample_Z", "none", z, 0),
                            Ev("critic_loss", "net_D", z, it.w),
                            Ev("grad_penalty", "net_D", z, it.gp),
                            Ev("zero_grad", "net_D", z, 0),
                            Ev("backward", "net_D", z, 0),
                            Ev("step", "net_D", z, 0)>>]

\* Variant: the loop body runs once before n_critic is tested.
RECURSIVE CriticLoop_BodyFirst(_, _, _)
CriticLoop_BodyFirst(k, its, st) ==
    IF k > cfg.n_critic /\ k > 1 THEN st
    ELSE CriticLoop_BodyFirst(k + 1, its,
            CriticIteration(st, IF k \in DOMAIN its THEN its[k] ELSE [w |-> 0, gp |-> 0]))

RECURSIVE CriticLoop(_, _, _)
CriticLoop(k, its, st) ==
    IF k > cfg.n_critic THEN st
    ELSE CriticLoop(k + 1, its, CriticIteration(st, its[k]))

\* The generator update on the state st the critic loop leaves.
GeneratorStep(st, use_cls_loss) ==
    LET z == st.nz + 1
        g1 == ZeroGrad(st.grads, "net_G")
        g2 == Backward(g1, IF use_cls_loss THEN {"net_G", "net_D", "classifier"}
                           ELSE {"net_G", "net_D"})
    IN [params |-> OptimStep(st.params, g2, "net_G"),
        grads |-> g2,
        total |-> st.total,
        nz |-> z,
        log |-> st.log \o <<Ev("sample_Z", "none", z, 0),
                            Ev("zero_grad", "net_G", z, 0),
                            Ev("backward", "net_G", z, 0),
                            Ev("step", "net_G", z, 0)>>]

fit_GAN(use_cls_loss, its, gen) ==
    LET st0 == [params |-> params, grads |-> StaleGrads, total |-> 0, nz |-> 0,
                log |-> <<Ev("X_real", "none", 0, 0)>>]
        st1 == CriticLoop(1, its, st0)
        st2 == GeneratorStep(st1, use_cls_loss)
    IN /\ params' = st2.params
       /\ log' = st2.log
       /\ last' = [op |-> "fit_GAN", arg |-> [use_cls_loss |-> use_cls_loss, batch |-> gen],
                   raised |-> "none", ret |-> <<st2.total, GenLoss(use_cls_loss, gen)>>]
       /\ UNCHANGED <<cfg, final_training, files, snapshot>>

\* The values the black-box networks produce for one call of fit_GAN on a
\* batch of bs examples: per critic iteration the Wasserstein estimate w and
\* the gradient penalty gp; for the generator step the critic's scores, the
\* auxiliary classifier's logits and the batch's label indices.
IterInputs(ws, gps) == [1 .. cfg.n_critic -> [w : ws, gp : gps]]

GenInputs(scoreVals, logitVals) ==
    [scores : [1 .. cfg.bs -> scoreVals],
     logits : [1 .. cfg.bs -> [1 .. cfg.train_out -> logitVals]],
     label_idx : [1 .. cfg.bs -> 0 .. (cfg.train_out - 1)]]

(* ------------------------------------------------------ create_syn_dataset *)
n_examples == 50

IndexThreshold == 645

ReducedBy == 15

\* Variant: the threshold itself counts as below.
NSyn_StrictThreshold(idx) ==
    IF idx > IndexThreshold THEN n_examples ELSE n_examples - ReducedBy

NSyn(idx) == IF idx >= IndexThreshold THEN n_examples ELSE n_examples - ReducedBy

\* The triples of one class: row i of net_G applied to the noise rows of this
\* class, each conditioned on attr.
ClassTriples(k, label_dict) ==
    LET attr == label_dict.attribute
        idx == label_dict.index
        n_syn == NSyn(idx)
    IN [i \in 1 .. n_syn |->
          <<[theta |-> params["net_G"], z |-> <<k, i>>, c_y |-> attr], attr, idx>>]

RECURSIVE SynDataset(_, _)
SynDataset(k, labels) ==
    IF k > Len(labels) THEN <<>>
    ELSE ClassTriples(k, labels[k]) \o SynDataset(k + 1, labels)

create_syn_dataset(labels) ==
    /\ last' = [op |-> "create_syn_dataset", arg |-> labels, raised |-> "none",
                ret |-> SynDataset(1, labels)]
    /\ log' = <<>>
    /\ UNCHANGED <<cfg, params, final_training, files, snapshot>>

ClassNames == {"c1", "c2", "c3"}

LabelMaps(indexVals, attrVals) ==
    {l \in UNION {[1 .. n -> [name : ClassNames, attribute : attrVals, index : indexVals]] :
                    n \in 0 .. MaxClasses} :
        \A i, j \in DOMAIN l : i # j => l[i].name # l[j].name}

(* -------------------------------------------------------------------- test *)
\* torch.max(Y_pred, dim=1)[1]: per row the index of its largest entry.
ArgMax(row) ==
    CHOOSE j \in 0 .. (Len(row) - 1) :
        /\ \A k \in 0 .. (Len(row) - 1) : row[k + 1] <= row[j + 1]
        /\ \A k \in 0 .. (j - 1) : row[k + 1] < row[j + 1]

Correct(Y_pred, label_idx) ==
    Cardinality({i \in DOMAIN Y_pred : label_idx[i] = ArgMax(Y_pred[i])})

\* The returned quotient correct / self.bs as the fraction <<correct, bs>>.
test(batch) ==
    /\ final_training' = FALSE
    /\ last' = [op |-> "test", arg |-> batch, raised |-> "none",
                ret |-> <<Correct(batch.Y_pred, batch.label_idx), cfg.bs>>]
    /\ log' = <<>>
    /\ UNCHANGED <<cfg, params, files, snapshot>>

Batches(sizes, logitVals) ==
    UNION {[Y_pred : [1 .. m -> [1 .. cfg.total_out -> logitVals]],
            label_idx : [1 .. m -> 0 .. (cfg.total_out - 1)]] : m \in sizes}

(* ---------------------------------------------------------- specifications *)
\* The parameter sets each persistable kind consists of.
NetsOf(kind) ==
    CASE kind = "disc_classifier" -> {"classifier"}
      [] kind = "gan" -> {"net_G", "net_D"}
      [] kind = "final_classifier" -> {"final_classifier"}
      [] OTHER -> {}

\* History: the values a kind's parameter sets held at its latest save.
Remember(model) ==
    IF model \in Kinds
    THEN [snapshot EXCEPT ![model] =
            [saved |-> TRUE,
             vals |-> [n \in Nets |-> IF n \in NetsOf(model) THEN params[n] ELSE 0]]]
    ELSE snapshot

AnyParams == [Nets -> ParamVals]

GanParams == {p \in AnyParams : p["classifier"] = 0 /\ p["final_classifier"] = 0}

\* One critic step per call, one example per batch, seen classes a subset of
\* all classes.
PlainConfigs ==
    {c \in Configs : c.n_critic = 1 /\ c.bs = 1 /\ c.train_out = 1}

FitClassifier == \E loss \in {0} : fit_classifier(loss)

FitFinalClassifier == \E fi \in BOOLEAN, loss \in {0} : fit_final_classifier(fi, loss)

FitGAN ==
    \E u \in BOOLEAN : \E its \in IterInputs({0}, {0}) : \E gen \in GenInputs({0}, {0}) :
        fit_GAN(u, its, gen)

SaveModel == \E m \in ModelNames : save_model(m) /\ UNCHANGED snapshot

LoadModel == \E m \in ModelNames, partial \in ParamVals : load_model(m, partial)

Test == \E b \in Batches({1}, {0}) : test(b)

CreateSynDataset ==
    \E l \in LabelMaps({IndexThreshold}, {0}) : Len(l) = 1 /\ create_syn_dataset(l)

\* Every method of the trainer, in any order, from a fresh checkpoint directory.
Init == InitWith({c \in PlainConfigs : c.total_out = MaxOut}, AnyParams, "fresh")

Next ==
    \/ FitClassifier
    \/ FitFinalClassifier
    \/ FitGAN
    \/ SaveModel
    \/ LoadModel
    \/ Test
    \/ CreateSynDataset

Spec == Init /\ [][Next]_vars

\* Saving and loading on any checkpoint directory an earlier run may have left.
InitPersist == InitWith(PlainConfigs, AnyParams, "any")

NextPersist ==
    \/ SaveModel
    \/ LoadModel

SpecPersist == InitPersist /\ [][NextPersist]_vars

\* Saving with the history of what was saved, training, and loading.
InitRoundTrip == InitWith(PlainConfigs, AnyParams, "fresh")

SaveModelRemember == \E m \in ModelNames : save_model(m) /\ snapshot' = Remember(m)

NextRoundTrip ==
    \/ SaveModelRemember
    \/ LoadModel
    \/ FitClassifier
    \/ FitFinalClassifier
    \/ FitGAN

SpecRoundTrip == InitRoundTrip /\ [][NextRoundTrip]_vars

\* fit_GAN alone, over every n_critic and every outcome of the critic passes.
InitGAN ==
    InitWith({c \in Configs : c.bs = 1 /\ c.train_out = 1 /\ c.total_out = 1},
             GanParams, "fresh")

FitGANCritic ==
    \E u \in BOOLEAN : \E its \in IterInputs({-1, 1}, {0, 1}) :
        \E gen \in GenInputs({0}, {0}) : fit_GAN(u, its, gen)

NextGAN == FitGANCritic

SpecGAN == InitGAN /\ [][NextGAN]_vars

\* fit_GAN alone, over every batch of critic scores, logits and labels.
InitGenLoss ==
    InitWith({c \in Configs : c.n_critic <= 1 /\ c.total_out = c.train_out},
             {[n \in Nets |-> 0]}, "fresh")

FitGANGenerator ==
    \E u \in BOOLEAN : \E its \in IterInputs({0}, {0}) :
        \E gen \in GenInputs({0, 1}, 0 .. MaxLogit) : fit_GAN(u, its, gen)

NextGenLoss == FitGANGenerator

SpecGenLoss == InitGenLoss /\ [][NextGenLoss]_vars

\* create_syn_dataset alone, over label mappings on both sides of the threshold.
InitSyn ==
    InitWith({c \in PlainConfigs : c.total_out = 1},
             {p \in GanParams : p["net_D"] = 0}, "fresh")

CreateSynDatasetAny ==
    \E l \in LabelMaps({IndexThreshold - 1, IndexThreshold}, {0, 1}) :
        create_syn_dataset(l)

NextSyn == CreateSynDatasetAny

SpecSyn == InitSyn /\ [][NextSyn]_vars

\* test alone, over batches of every size and every configured bs.
InitTest ==
    InitWith({c \in Configs : c.n_critic = 0 /\ c.train_out = 1},
             {[n \in Nets |-> 0]}, "fresh")

TestAny == \E b \in Batches(1 .. MaxBatch, 0 .. MaxLogit) : test(b)

NextTest == TestAny

SpecTest == InitTest /\ [][NextTest]_vars

(* ------------------------------------------------------------- persistence *)
\* The checkpoint files each kind is loaded from.
FilesOf(kind) ==
    CASE kind = "disc_classifier" -> {"disc_classifier.pth"}
      [] kind = "gan" -> {"generator.pth", "discriminator.pth"}
      [] kind = "final_classifier" -> {"final_classifier.pth"}
      [] OTHER -> {}

FileOfNet(net) ==
    CASE net = "classifier" -> "disc_classifier.pth"
      [] net = "net_G" -> "generator.pth"
      [] net = "net_D" -> "discriminator.pth"
      [] net = "final_classifier" -> "final_classifier.pth"

Missing(f) == files[f] = NoFile

\* C1: round-trip law.  After save_model(kind) into a fresh directory and any
\* amount of training, load_model(kind) returns True and every parameter set
\* of kind holds again the values it had at the save.
C1_RoundTrip ==
    (last.op = "load_model" /\ last.arg \in Kinds /\ snapshot[last.arg].saved)
        => /\ last.raised = "none"
           /\ last.ret = "True"
           /\ \A n \in NetsOf(last.arg) : params[n] = snapshot[last.arg].vals[n]

\* C2 as stated: load_model of a recognised name with a needed checkpoint file
\* missing returns False without raising and changes no parameter set.
C2_MissingFileLeavesAll ==
    [][(last'.op = "load_model" /\ last'.arg \in Kinds
            /\ \E f \in FilesOf(last'.arg) : Missing(f))
        => (last'.raised = "none" /\ last'.ret = "False" /\ params' = params)]_vars

\* C2 amended: load_model of a recognised name with a needed checkpoint file
\* missing returns False without raising and leaves every parameter set as it
\* was, except that load_model("gan") with one of its two files present
\* overwrites the network whose file exists with that checkpoint.
C2_MissingFileLeavesAllButPresentGan ==
    [][(last'.op = "load_model" /\ last'.arg \in Kinds
            /\ \E f \in FilesOf(last'.arg) : Missing(f))
        => /\ last'.raised = "none"
           /\ last'.ret = "False"
           /\ \A n \in Nets :
                params'[n] = IF last'.arg = "gan" /\ n \in NetsOf("gan")
                                  /\ ~Missing(FileOfNet(n))
                             THEN files[FileOfNet(n)].val
                             ELSE params[n]]_vars

C2_Witness ==
    /\ last.op = "load_model" /\ last.arg = "gan" /\ last.ret = "False"
    /\ ~Missing("generator.pth") /\ Missing("discriminator.pth")
    /\ params["net_G"] = files["generator.pth"].val

\* C7: save_model and load_model with a name outside the three kinds raise,
\* return nothing (never False), write no file and change no parameter set.
C7_UnknownNameRaises ==
    [][(last'.op \in {"save_model", "load_model"} /\ last'.arg \notin Kinds)
        => /\ last'.raised = "Exception"
           /\ last'.ret = "None"
           /\ params' = params
           /\ files' = files]_vars

C7_Witness ==
    /\ last.op = "load_model" /\ last.arg = "None"
    /\ last.raised = "Exception" /\ last.ret # "False"
    /\ \E f \in FileNames : Missing(f)

\* C8: load_model("gan") loads each of generator.pth and discriminator.pth
\* that exists, whether or not the other does, leaves the network of a
\* missing file unchanged, and returns True exactly when both files existed.
C8_GanFilesIndependent ==
    [][(last'.op = "load_model" /\ last'.arg = "gan")
        => /\ last'.raised = "none"
           /\ last'.ret = "True"
                <=> (~Missing("generator.pth") /\ ~Missing("discriminator.pth"))
           /\ last'.ret \in {"True", "False"}
           /\ \A n \in Nets :
                params'[n] = IF n \in NetsOf("gan") /\ ~Missing(FileOfNet(n))
                             THEN files[FileOfNet(n)].val
                             ELSE params[n]]_vars

C8_Witness ==
    /\ last.op = "load_model" /\ last.arg = "gan" /\ last.ret = "False"
    /\ Missing("generator.pth") /\ ~Missing("discriminator.pth")
    /\ params["net_D"] = files["discriminator.pth"].val

(* ---------------------------------------------------------------- training *)
\* Positions in the record of the latest call where e was done on net.
At(e, net) == {i \in DOMAIN log : log[i].ev = e /\ log[i].net = net}

\* The value the entry e of the pass using noise batch z produced.
ValueOf(e, z) == log[CHOOSE i \in DOMAIN log : log[i].ev = e /\ log[i].z = z].v

IterationLoss(d) ==
    ValueOf("critic_loss", log[d].z) + cfg.lmbda * ValueOf("grad_penalty", log[d].z)

RECURSIVE SumOfLosses(_)
SumOfLosses(S) ==
    IF S = {} THEN 0
    ELSE LET d == CHOOSE y \in S : TRUE IN IterationLoss(d) + SumOfLosses(S \ {d})

\* C3: with n_critic = 0, fit_GAN never enters the critic loop, leaves the
\* Critic's parameters as they were, returns 0 as accumulated critic loss, and
\* still steps the generator optimizer exactly once, moving the Generator.
C3_NoCriticPass ==
    [][(last'.op = "fit_GAN" /\ cfg.n_critic = 0)
        => /\ \A i \in DOMAIN log' : log'[i].net # "net_D"
           /\ params'["net_D"] = params["net_D"]
           /\ last'.ret[1] = 0
           /\ Cardinality({i \in DOMAIN log' :
                             log'[i].ev = "step" /\ log'[i].net = "net_G"}) = 1
           /\ params'["net_G"] # params["net_G"]]_vars

C3_Witness ==
    /\ last.op = "fit_GAN" /\ cfg.n_critic = 0 /\ last.ret[1] = 0
    /\ At("step", "net_G") # {} /\ At("step", "net_D") = {}

\* C9: every call of fit_GAN computes the real representation once, first;
\* then makes exactly n_critic critic steps, each after zeroing the critic
\* gradients and on a noise batch sampled since the previous step; then makes
\* exactly one generator step, last, on noise sampled after the critic loop;
\* and returns as first value the sum over the critic passes of the critic
\* loss plus lambda times the gradient penalty.
C9_UpdateSchedule ==
    (last.op = "fit_GAN")
        => /\ At("X_real", "none") = {1}
           /\ Cardinality(At("step", "net_D")) = cfg.n_critic
           /\ \A d \in At("step", "net_D") :
                \E sz \in At("sample_Z", "none"), zg \in At("zero_grad", "net_D") :
                    /\ sz < zg /\ zg < d
                    /\ log[sz].z = log[d].z
                    /\ \A d2 \in At("step", "net_D") : d2 < d => d2 < sz
           /\ \A i, j \in At("sample_Z", "none") : log[i].z = log[j].z => i = j
           /\ Cardinality(At("step", "net_G")) = 1
           /\ \A g \in At("step", "net_G") :
                /\ g = Len(log)
                /\ \E sz \in At("sample_Z", "none") :
                    /\ sz < g
                    /\ log[sz].z = log[g].z
                    /\ \A d \in At("step", "net_D") : d < sz
           /\ last.ret[1] = SumOfLosses(At("step", "net_D"))

C9_Witness ==
    /\ last.op = "fit_GAN" /\ cfg.n_critic = 2
    /\ Cardinality(At("step", "net_D")) = 2
    /\ last.ret[1] = 2 * cfg.lmbda

\* Whether stepping from the current state with the generator update alone
\* leaves every parameter set but the Generator's as it is.
GeneratorStepOwnsGenerator ==
    \A u \in BOOLEAN : \A n \in Nets \ {"net_G"} :
        GeneratorStep([params |-> params, grads |-> StaleGrads, total |-> 0, nz |-> 0,
                       log |-> <<>>], u).params[n] = params[n]

\* The parameter sets each training method optimizes.
Owned(op) ==
    CASE op = "fit_classifier" -> {"classifier"}
      [] op = "fit_final_classifier" -> {"final_classifier"}
      [] op = "fit_GAN" -> {"net_G", "net_D"}
      [] OTHER -> {}

\* C4: in any sequence of calls, fit_classifier changes only the Auxiliary
\* Classifier, fit_final_classifier only the Final Classifier, fit_GAN only
\* the Critic and the Generator, each optimizer step is on one parameter set
\* owned by the method, the generator step of fit_GAN changes neither the
\* Critic nor the Auxiliary Classifier, and test, create_syn_dataset and
\* save_model change no parameter set.
C4_OwnParametersOnly ==
    [][(last'.op \in {"fit_classifier", "fit_final_classifier", "fit_GAN", "test",
                      "create_syn_dataset", "save_model"})
        => /\ \A n \in Nets \ Owned(last'.op) : params'[n] = params[n]
           /\ \A i \in DOMAIN log' :
                log'[i].ev = "step" => log'[i].net \in Owned(last'.op)
           /\ GeneratorStepOwnsGenerator]_vars

C4_Witness ==
    /\ last.op = "fit_GAN" /\ last.arg.use_cls_loss
    /\ At("step", "net_G") # {} /\ At("step", "net_D") # {}
    /\ \E f \in FileNames : ~Missing(f)

(* ----------------------------------------------------- generator loss *)
FracEq(a, b) == a[1] * b[2] = b[1] * a[2]

\* Example i's probability of its own label, its logits normalised over the
\* class axis.
OwnClassProb(b, i) ==
    <<Exp2(b.logits[i][b.label_idx[i] + 1]),
      SumSeq([j \in DOMAIN b.logits[i] |-> Exp2(b.logits[i][j])])>>

\* C10: with use_cls_loss the generator loss is the negated mean critic score
\* plus beta times the negative mean log of each example's own-label
\* probability, normalised per example over the classes; without it the loss
\* is the negated mean critic score alone.
C10_ClassAxisSoftmax ==
    (last.op = "fit_GAN")
        => LET b == last.arg.batch
               L == last.ret[2]
               own == [i \in DOMAIN b.logits |-> OwnClassProb(b, i)]
           IN /\ L.num = -1 * SumSeq(b.scores)
              /\ L.n = Len(b.scores)
              /\ IF last.arg.use_cls_loss
                 THEN /\ L.beta = cfg.beta
                      /\ FracEq(L.prob, <<ProdSeq([i \in DOMAIN own |-> own[i][1]]),
                                          ProdSeq([i \in DOMAIN own |-> own[i][2]])>>)
                 ELSE L.beta = 0

(* ------------------------------------------------------ synthetic dataset *)
PerClass(label_dict) == IF label_dict.index < 645 THEN 35 ELSE 50

RECURSIVE BlockStart(_, _)
BlockStart(labels, k) ==
    IF k = 1 THEN 0 ELSE BlockStart(labels, k - 1) + PerClass(labels[k - 1])

\* C5: create_syn_dataset emits for each class 50 triples when its index is
\* at least 645 and 35 when it is below; the output is these blocks one after
\* the other in the mapping's order, every triple carrying the attribute
\* vector and label index of its class.
C5_PerClassBlocks ==
    (last.op = "create_syn_dataset")
        => LET labels == last.arg
               ds == last.ret
           IN /\ Len(ds) = BlockStart(labels, Len(labels) + 1)
              /\ \A k \in DOMAIN labels :
                   \A i \in 1 .. PerClass(labels[k]) :
                       /\ ds[BlockStart(labels, k) + i][2] = labels[k].attribute
                       /\ ds[BlockStart(labels, k) + i][3] = labels[k].index

C5_Witness ==
    /\ last.op = "create_syn_dataset" /\ Len(last.arg) = 2
    /\ last.arg[1].index = 645 /\ last.arg[2].index = 644
    /\ last.arg[1].attribute # last.arg[2].attribute
    /\ Len(last.ret) = 85

(* --------------------------------------------------------------- evaluator *)
\* C6: test returns the fraction of the batch's examples whose arg-max class
\* equals the label: within [0, 1], 1 when all match, 0 when none does.
C6_FractionOfBatch ==
    (last.op = "test")
        => LET b == last.arg
               n == Len(b.Y_pred)
               hits == Cardinality({i \in 1 .. n : ArgMax(b.Y_pred[i]) = b.label_idx[i]})
               acc == last.ret
           IN /\ acc[1] * n = hits * acc[2]
              /\ 0 <= acc[1] /\ acc[1] <= acc[2]
              /\ hits = n => acc[1] = acc[2]
              /\ hits = 0 => acc[1] = 0

====
